---- MODULE Spec2Model ----
(***************************************************************************)
(* Model of the hotel booking manager of src/main_perfect.py: the Booking  *)
(* entity (to_dict / from_dict), the HotelManager state and operations,    *)
(* and the JSON snapshot files save_data writes and load_data reads.       *)
(*                                                                         *)
(* Conventions.  A Python Optional value is a sequence of length at most   *)
(* one: None is <<>> and a present value x is <<x>>.  A datetime is a      *)
(* number of seconds within one fixed minute; its ISO text is the two      *)
(* decimal digits of the seconds field.  A JSON object is a function from  *)
(* its keys to its values, so that a missing key is a key outside DOMAIN.  *)
(***************************************************************************)
EXTENDS Integers, Sequences, FiniteSets, TLC

VARIABLES next_id, available_rooms, maintenance_rooms, bookings, files, last

vars == <<next_id, available_rooms, maintenance_rooms, bookings, files, last>>

manager == <<next_id, available_rooms, maintenance_rooms, bookings>>

(***************************************************************************)
(* Bounds of the model.                                                    *)
(***************************************************************************)
\* Size of the room universe (the program uses 1..50).
NumRooms == 2
\* Cap on the number of successful check-ins (next_id is unbounded in the code).
MaxBookings == 2

Rooms == 1..NumRooms

(***************************************************************************)
(* Python values.                                                          *)
(***************************************************************************)
None == <<>>
Some(x) == <<x>>

Range(s) == {s[i] : i \in 1..Len(s)}

\* range(1, n + 1) as a list.
RangeList(n) == [i \in 1..n |-> i]

\* Mutant of ListRemove: nothing is removed.
ListRemove_Keeps(s, x) == s

\* list.remove(x): drops the first occurrence of x.
ListRemove(s, x) ==
    LET idx == {i \in 1..Len(s) : s[i] = x}
    IN  IF idx = {} THEN s
        ELSE LET k == CHOOSE i \in idx : \A j \in idx : i <= j
             IN  SubSeq(s, 1, k - 1) \o SubSeq(s, k + 1, Len(s))

(***************************************************************************)
(* datetime.isoformat / datetime.fromisoformat                             *)
(***************************************************************************)
isoformat(t) == <<t \div 10, t % 10>>

iso_valid(s) == /\ Len(s) = 2
                /\ s[1] \in 0..5
                /\ s[2] \in 0..9

\* Mutant of fromisoformat: the two digits are read in the wrong order.
fromisoformat_Swapped(s) == s[2] * 10 + s[1]

fromisoformat(s) == s[1] * 10 + s[2]

(***************************************************************************)
(* Booking                                                                 *)
(***************************************************************************)
\* Mutant of Booking: the payment flag is dropped.
Booking_Unpaid(booking_id, check_in, num_guests, room_id, is_paid) ==
    [booking_id |-> booking_id,
     check_in |-> check_in,
     check_out |-> None,
     num_guests |-> num_guests,
     room_id |-> room_id,
     is_paid |-> FALSE,
     checkout_reason |-> None,
     checkout_notes |-> None]

Booking(booking_id, check_in, num_guests, room_id, is_paid) ==
    [booking_id |-> booking_id,
     check_in |-> check_in,
     check_out |-> None,
     num_guests |-> num_guests,
     room_id |-> room_id,
     is_paid |-> is_paid,
     checkout_reason |-> None,
     checkout_notes |-> None]

to_dict(b) ==
    [booking_id |-> b.booking_id,
     check_in |-> isoformat(b.check_in),
     num_guests |-> b.num_guests,
     room_id |-> b.room_id,
     check_out |-> IF b.check_out # None THEN Some(isoformat(b.check_out[1])) ELSE None,
     is_paid |-> b.is_paid,
     checkout_reason |-> b.checkout_reason,
     checkout_notes |-> b.checkout_notes]

\* data.get(key, default)
Get(data, key, default) == IF key \in DOMAIN data THEN data[key] ELSE default

\* "if v" for a value that is null or a text: null and the empty text are
\* false.
Truthy(v) == v # None /\ v[1] # <<>>

\* from_dict raises (KeyError / ValueError) exactly when this is false.
from_dict_ok(data) ==
    /\ {"booking_id", "check_in", "num_guests", "room_id", "check_out"} \subseteq DOMAIN data
    /\ iso_valid(data["check_in"])
    /\ Truthy(data["check_out"]) => iso_valid(data["check_out"][1])

from_dict(data) ==
    [booking_id |-> data["booking_id"],
     check_in |-> fromisoformat(data["check_in"]),
     check_out |-> IF Truthy(data["check_out"])
                   THEN Some(fromisoformat(data["check_out"][1]))
                   ELSE None,
     num_guests |-> data["num_guests"],
     room_id |-> data["room_id"],
     is_paid |-> Get(data, "is_paid", FALSE),
     checkout_reason |-> Get(data, "checkout_reason", None),
     checkout_notes |-> Get(data, "checkout_notes", None)]

(***************************************************************************)
(* JSON snapshot files                                                     *)
(***************************************************************************)
DefaultPath == "hotel_data.json"
OtherPath == "backup.json"
Paths == {DefaultPath, OtherPath}

\* The members of the snapshot object in the order json.dump writes them.
MemberOrder == <<"next_id", "available_rooms", "maintenance_rooms", "bookings">>

\* The dictionary save_data builds.
Snapshot(nid, avail, maint, bks) ==
    [next_id |-> nid,
     available_rooms |-> avail,
     maintenance_rooms |-> maint,
     bookings |-> [i \in 1..Len(bks) |-> to_dict(bks[i])]]

\* A file: absent, or the members that reached it and whether the text was
\* written to its end (closed).
NoFile == [exists |-> FALSE, closed |-> FALSE, doc |-> <<>>]

FullFile(doc) == [exists |-> TRUE, closed |-> TRUE, doc |-> doc]

CutFile(doc, n) ==
    [exists |-> TRUE, closed |-> FALSE,
     doc |-> [k \in {MemberOrder[i] : i \in 1..n} |-> doc[k]]]

\* What the storage does to one save_data call: "ok", "denied" (open() raises,
\* the file is not touched) or "cut" (open() truncated the file, then the write
\* stopped after n members).  The cuts offered leave an empty file and a file
\* with half of the members.
StorageOk == [kind |-> "ok", n |-> Len(MemberOrder)]
CutPoints == {0, Len(MemberOrder) \div 2}
StorageFaults ==
    {[kind |-> "denied", n |-> 0]} \cup {[kind |-> "cut", n |-> k] : k \in CutPoints}

\* The files after save_data(path) of the dictionary doc.
save_data(fs, path, doc, st) ==
    CASE st.kind = "ok" -> [fs EXCEPT ![path] = FullFile(doc)]
      [] st.kind = "denied" -> fs
      [] st.kind = "cut" -> [fs EXCEPT ![path] = CutFile(doc, st.n)]

\* save_data's return value.
save_ok(st) == st.kind = "ok"

\* json.load succeeds on the file.
json_ok(f) == f.exists /\ f.closed

(***************************************************************************)
(* HotelManager                                                            *)
(***************************************************************************)
\* The last call made on the manager (or the handler now waiting in its
\* dialog, with ret "exec_"), for the properties to refer to: its
\* name, its arguments (of a call that failed, those its failure was decided
\* on), what it returned or raised, a returned number, and what became of its
\* save_data call: "none" (it made none), "ok" or "error" (save_data printed
\* "Error saving data").
Call(op, args, ret, value, saved) ==
    [op |-> op, args |-> args, ret |-> ret, value |-> value, saved |-> saved]

NoArgs == [none |-> 0]

SaveResult(st) == IF st.kind = "ok" THEN "ok" ELSE "error"

Init ==
    /\ next_id = 1
    /\ available_rooms = RangeList(NumRooms)
    /\ maintenance_rooms = <<>>
    /\ bookings = <<>>
    /\ files = [p \in Paths |-> NoFile]
    /\ last = Call("init", NoArgs, "None", 0, "none")

\* self.save_data(self.get_default_data_path()) at the end of an operation:
\* the new state goes to the default file.
SaveDefault(st) ==
    files' = save_data(files, DefaultPath,
                       Snapshot(next_id', available_rooms', maintenance_rooms', bookings'), st)

\* Mutant of RoomAvailable: only the maintenance list is consulted.
RoomAvailable_NotInMaintenance(room_id) == room_id \notin Range(maintenance_rooms)

\* Mutant of RoomAvailable: a room listed in either list can be booked.
RoomAvailable_Listed(room_id) ==
    room_id \in Range(available_rooms) \/ room_id \in Range(maintenance_rooms)

\* check_in's guard: the room can be booked.
RoomAvailable(room_id) ==
    ~(room_id \notin Range(available_rooms) \/ room_id \in Range(maintenance_rooms))

check_in(num_guests, check_in_datetime, room_id, is_paid, st) ==
    LET args == [num_guests |-> num_guests, time |-> check_in_datetime,
                 room_id |-> room_id, is_paid |-> is_paid]
    IN  IF ~RoomAvailable(room_id)
        THEN /\ last' = Call("check_in", [room_id |-> room_id], "ValueError", 0, "none")
             /\ UNCHANGED <<manager, files>>
        ELSE /\ next_id <= MaxBookings
             /\ Len(bookings) < MaxBookings
             /\ bookings' = Append(bookings,
                                   Booking(next_id, check_in_datetime, num_guests, room_id, is_paid))
             /\ available_rooms' = ListRemove(available_rooms, room_id)
             /\ next_id' = next_id + 1
             /\ UNCHANGED maintenance_rooms
             /\ SaveDefault(st)
             /\ last' = Call("check_in", args, "None", 0, SaveResult(st))

\* Mutant of FindBooking: the oldest booking is taken, whatever the id.
FindBooking_First(bks, booking_id) == IF bks = <<>> THEN 0 ELSE 1

\* Index of the first booking with this id, 0 when there is none.
FindBooking(bks, booking_id) ==
    LET idx == {i \in 1..Len(bks) : bks[i].booking_id = booking_id}
    IN  IF idx = {} THEN 0 ELSE CHOOSE i \in idx : \A j \in idx : i <= j

\* Mutants of CanCheckOut: a time equal to the check-in passes; the time is
\* not compared; a booking already checked out passes.
CanCheckOut_NotBefore(b, check_out_datetime) ==
    b.check_out = None /\ check_out_datetime >= b.check_in

CanCheckOut_AnyTime(b, check_out_datetime) == b.check_out = None

CanCheckOut_Again(b, check_out_datetime) == check_out_datetime > b.check_in

\* check_out's condition on the booking found.
CanCheckOut(b, check_out_datetime) ==
    b.check_out = None /\ check_out_datetime > b.check_in

check_out(booking_id, check_out_datetime, reason, notes, st) ==
    LET args == [booking_id |-> booking_id, time |-> check_out_datetime,
                 reason |-> reason, notes |-> notes]
        i == FindBooking(bookings, booking_id)
    IN  IF i # 0 /\ CanCheckOut(bookings[i], check_out_datetime)
        THEN /\ bookings' = [bookings EXCEPT ![i] =
                                [@ EXCEPT !.check_out = Some(check_out_datetime),
                                          !.checkout_reason = Some(reason),
                                          !.checkout_notes = notes]]
             /\ available_rooms' = Append(available_rooms, bookings[i].room_id)
             /\ UNCHANGED <<next_id, maintenance_rooms>>
             /\ SaveDefault(st)
             /\ last' = Call("check_out", args, "True", 0, SaveResult(st))
        ELSE /\ last' = Call("check_out",
                             [booking_id |-> booking_id, time |-> check_out_datetime],
                             "False", 0, "none")
             /\ UNCHANGED <<manager, files>>

\* Mutant of mark_room_under_maintenance: any room not yet in maintenance is
\* taken, available or not.
mark_room_under_maintenance_Unguarded(room_id, st) ==
    LET args == [room_id |-> room_id]
    IN  IF room_id \notin Range(maintenance_rooms)
        THEN /\ available_rooms' = ListRemove(available_rooms, room_id)
             /\ maintenance_rooms' = Append(maintenance_rooms, room_id)
             /\ UNCHANGED <<next_id, bookings>>
             /\ SaveDefault(st)
             /\ last' = Call("mark_room_under_maintenance", args, "None", 0, SaveResult(st))
        ELSE /\ last' = Call("mark_room_under_maintenance", args, "None", 0, "none")
             /\ UNCHANGED <<manager, files>>

mark_room_under_maintenance(room_id, st) ==
    LET args == [room_id |-> room_id]
    IN  IF room_id \in Range(available_rooms)
        THEN /\ available_rooms' = ListRemove(available_rooms, room_id)
             /\ maintenance_rooms' = Append(maintenance_rooms, room_id)
             /\ UNCHANGED <<next_id, bookings>>
             /\ SaveDefault(st)
             /\ last' = Call("mark_room_under_maintenance", args, "None", 0, SaveResult(st))
        ELSE /\ last' = Call("mark_room_under_maintenance", args, "None", 0, "none")
             /\ UNCHANGED <<manager, files>>

mark_room_repaired(room_id, st) ==
    LET args == [room_id |-> room_id]
    IN  IF room_id \in Range(maintenance_rooms)
        THEN /\ maintenance_rooms' = ListRemove(maintenance_rooms, room_id)
             /\ available_rooms' = Append(available_rooms, room_id)
             /\ UNCHANGED <<next_id, bookings>>
             /\ SaveDefault(st)
             /\ last' = Call("mark_room_repaired", args, "None", 0, SaveResult(st))
        ELSE /\ last' = Call("mark_room_repaired", args, "None", 0, "none")
             /\ UNCHANGED <<manager, files>>

IsCurrent(b) == b.check_out = None
IsCheckedOut(b) == b.check_out # None

\* Mutant of get_current_bookings: every booking counts as current.
get_current_bookings_All(bks) == bks

get_current_bookings(bks) == SelectSeq(bks, IsCurrent)
get_checked_out_bookings(bks) == SelectSeq(bks, IsCheckedOut)

get_available_rooms(avail) == avail

\* Mutant of get_unavailable_rooms: the rooms of all bookings are listed,
\* checked out or not.
get_unavailable_rooms_AllBookings(bks, maint) ==
    [i \in 1..Len(bks) |-> bks[i].room_id] \o maint

\* [b.room_id for b in self.bookings if b.check_out is None] + self.maintenance_rooms
get_unavailable_rooms(bks, maint) ==
    LET occupied == SelectSeq(bks, IsCurrent)
    IN  [i \in 1..Len(occupied) |-> occupied[i].room_id] \o maint

\* sum(b.num_guests for b in bks)
RECURSIVE SumGuests(_)
SumGuests(bks) == IF bks = <<>> THEN 0 ELSE Head(bks).num_guests + SumGuests(Tail(bks))

\* Mutant of get_total_guests: the guests of every booking are counted.
get_total_guests_All(bks) == SumGuests(bks)

get_total_guests(bks) == SumGuests(get_current_bookings(bks))

\* Mutant of clear_checked_out_bookings: the counter is set back to follow the
\* bookings that are left.
clear_checked_out_bookings_Renumber(st) ==
    /\ bookings' = SelectSeq(bookings, IsCurrent)
    /\ next_id' = Len(bookings') + 1
    /\ UNCHANGED <<available_rooms, maintenance_rooms>>
    /\ SaveDefault(st)
    /\ last' = Call("clear_checked_out_bookings", NoArgs, "int",
                    Len(SelectSeq(bookings, IsCheckedOut)), SaveResult(st))

clear_checked_out_bookings(st) ==
    /\ bookings' = get_current_bookings(bookings)
    /\ UNCHANGED <<next_id, available_rooms, maintenance_rooms>>
    /\ SaveDefault(st)
    /\ last' = Call("clear_checked_out_bookings", NoArgs, "int",
                    Len(get_checked_out_bookings(bookings)), SaveResult(st))

\* save_data(filename) called on its own (the Save Data button).
save_to(path, st) ==
    /\ files' = save_data(files, path,
                          Snapshot(next_id, available_rooms, maintenance_rooms, bookings), st)
    /\ UNCHANGED manager
    /\ last' = Call("save_data", [path |-> path],
                    IF save_ok(st) THEN "True" ELSE "False", 0, SaveResult(st))

\* data.get("bookings", [])
Records(data) == Get(data, "bookings", <<>>)

\* Every booking record of the snapshot parses.
records_ok(data) == \A i \in 1..Len(Records(data)) : from_dict_ok(Records(data)[i])

load_data(path) ==
    LET f == files[path]
        data == f.doc
        args == [path |-> path]
    IN  IF ~json_ok(f)
        THEN /\ last' = Call("load_data", args, "False", 0, "none")
             /\ UNCHANGED <<manager, files>>
        ELSE /\ next_id' = Get(data, "next_id", 1)
             /\ available_rooms' = Get(data, "available_rooms", RangeList(NumRooms))
             /\ maintenance_rooms' = Get(data, "maintenance_rooms", <<>>)
             /\ bookings' = IF records_ok(data)
                            THEN [i \in 1..Len(Records(data)) |-> from_dict(Records(data)[i])]
                            ELSE bookings
             /\ UNCHANGED files
             /\ last' = Call("load_data", args,
                             IF records_ok(data) THEN "True" ELSE "False", 0, "none")

(***************************************************************************)
(* Inputs and specifications                                               *)
(***************************************************************************)
\* Room ids offered to the operations: the universe and one id outside it.
RoomInputs == 1..(NumRooms + 1)
\* Booking ids offered to check_out: every id that can exist and one that cannot.
IdInputs == 1..(MaxBookings + 1)
\* (num_guests, check_in_datetime, is_paid) triples offered to check_in.
CheckInInputs == {<<1, 0, TRUE>>, <<2, 1, FALSE>>}
\* (check_out_datetime, reason, notes) triples offered to check_out: with the
\* check-in times above, a time before, equal to and after a check-in time.
CheckOutInputs ==
    {<<0, "Normal", None>>, <<1, "Normal", None>>, <<1, "Emergency", Some("fire alarm")>>}

CheckIn(inputs, st) ==
    \E a \in inputs, r \in RoomInputs : check_in(a[1], a[2], r, a[3], st)

CheckOut(inputs, st) ==
    \E id \in IdInputs, a \in inputs : check_out(id, a[1], a[2], a[3], st)

MarkMaintenance(st) == \E r \in RoomInputs : mark_room_under_maintenance(r, st)

MarkRepaired(st) == \E r \in RoomInputs : mark_room_repaired(r, st)

ClearCheckedOut(st) == clear_checked_out_bookings(st)

SaveData(ps, st) == \E p \in ps : save_to(p, st)

LoadData(ps) == \E p \in ps : load_data(p)

\* The manager with a storage that always takes the write; a restore reads
\* the default file.
Next ==
    \/ CheckIn(CheckInInputs, StorageOk)
    \/ CheckOut(CheckOutInputs, StorageOk)
    \/ MarkMaintenance(StorageOk)
    \/ MarkRepaired(StorageOk)
    \/ ClearCheckedOut(StorageOk)
    \/ LoadData({DefaultPath})

Spec == Init /\ [][Next]_vars

\* The same with explicit saves, and with restores from a second file.
NextBackup ==
    \/ Next
    \/ SaveData(Paths, StorageOk)
    \/ LoadData({OtherPath})

SpecBackup == Init /\ [][NextBackup]_vars

\* Snapshots that did not come from save_data: one whose booking record lacks
\* its booking_id, and one whose booking record has a check_in text that is no
\* ISO time.
ForeignRecords ==
    {[check_in |-> isoformat(0), num_guests |-> 1, room_id |-> 1, check_out |-> None],
     [booking_id |-> 1, check_in |-> <<9, 9>>, num_guests |-> 1, room_id |-> 1,
      check_out |-> None, is_paid |-> FALSE]}

ForeignDocs ==
    {[next_id |-> 1,
      available_rooms |-> RangeList(NumRooms),
      maintenance_rooms |-> <<>>,
      bookings |-> <<r>>] : r \in ForeignRecords}

\* Somebody else puts a file at the second path: one of the foreign snapshots,
\* whole or cut short.
ExternalWrite ==
    /\ \E doc \in ForeignDocs, whole \in BOOLEAN :
          files' = [files EXCEPT ![OtherPath] =
                      IF whole THEN FullFile(doc) ELSE CutFile(doc, 0)]
    /\ UNCHANGED manager
    /\ last' = Call("external_write", NoArgs, "None", 0, "none")

\* The manager restoring from files it did not write.
NextForeign ==
    \/ CheckIn({<<1, 0, TRUE>>}, StorageOk)
    \/ CheckOut({<<1, "Normal", None>>}, StorageOk)
    \/ MarkMaintenance(StorageOk)
    \/ MarkRepaired(StorageOk)
    \/ ClearCheckedOut(StorageOk)
    \/ ExternalWrite
    \/ LoadData({OtherPath})

SpecForeign == Init /\ [][NextForeign]_vars

\* The booking counter under every kind of restore: from a second file that
\* holds a snapshot the manager saved earlier, or a foreign one, whole or cut
\* short.  Maintenance, which never touches the counter, is left out.
NextRestore ==
    \/ CheckIn({<<1, 0, TRUE>>}, StorageOk)
    \/ CheckOut({<<1, "Normal", None>>}, StorageOk)
    \/ ClearCheckedOut(StorageOk)
    \/ SaveData({OtherPath}, StorageOk)
    \/ ExternalWrite
    \/ LoadData({OtherPath})

SpecRestore == Init /\ [][NextRestore]_vars

\* Booking records of older snapshots: one with the four required fields
\* only, and two that also have check_out, as null and as the empty text, but
\* none of is_paid, checkout_reason and checkout_notes.
LegacyRecords ==
    {[booking_id |-> 1, check_in |-> isoformat(0), num_guests |-> 1, room_id |-> 1],
     [booking_id |-> 1, check_in |-> isoformat(0), num_guests |-> 1, room_id |-> 1,
      check_out |-> None],
     [booking_id |-> 1, check_in |-> isoformat(0), num_guests |-> 1, room_id |-> 1,
      check_out |-> Some(<<>>)]}

\* Older snapshots holding one such record, for a current booking of room 1.
LegacyDocs ==
    {[next_id |-> 2,
      available_rooms |-> ListRemove(RangeList(NumRooms), 1),
      maintenance_rooms |-> <<>>,
      bookings |-> <<r>>] : r \in LegacyRecords}

\* An older snapshot is put at the second path.
LegacyWrite ==
    /\ \E doc \in LegacyDocs : files' = [files EXCEPT ![OtherPath] = FullFile(doc)]
    /\ UNCHANGED manager
    /\ last' = Call("legacy_write", NoArgs, "None", 0, "none")

\* The manager restoring from snapshots of an older version.
NextLegacy ==
    \/ CheckIn({<<1, 0, TRUE>>}, StorageOk)
    \/ CheckOut({<<1, "Normal", None>>}, StorageOk)
    \/ MarkMaintenance(StorageOk)
    \/ MarkRepaired(StorageOk)
    \/ ClearCheckedOut(StorageOk)
    \/ LegacyWrite
    \/ LoadData({OtherPath})

SpecLegacy == Init /\ [][NextLegacy]_vars

(***************************************************************************)
(* The check-out dialog (EnhancedCheckOutDialog) and its caller             *)
(***************************************************************************)
\* Texts are sequences of Unicode code points.
\* str.isspace() of one character: the characters str.strip() removes.
IsSpace(c) ==
    c \in (9..13) \cup (28..32) \cup {133, 160, 5760} \cup (8192..8202)
             \cup {8232, 8233, 8239, 8287, 12288}

RECURSIVE lstrip(_)
lstrip(s) == IF s # <<>> /\ IsSpace(Head(s)) THEN lstrip(Tail(s)) ELSE s

RECURSIVE rstrip(_)
rstrip(s) == IF s # <<>> /\ IsSpace(s[Len(s)]) THEN rstrip(SubSeq(s, 1, Len(s) - 1)) ELSE s

\* str.strip(): leading and trailing white space removed.
strip(s) == rstrip(lstrip(s))

\* The code points of the digits "0" to "9".
Digits == <<48, 49, 50, 51, 52, 53, 54, 55, 56, 57>>

\* str(n) for a natural number: its decimal digits.
RECURSIVE str(_)
str(n) == IF n < 10 THEN <<Digits[n + 1]>> ELSE str(n \div 10) \o <<Digits[(n % 10) + 1]>>

DigitValue(c) == CHOOSE d \in 0..9 : Digits[d + 1] = c

\* int(s) for a text of decimal digits.
RECURSIVE int(_)
int(s) ==
    IF Len(s) = 1 THEN DigitValue(s[1])
    ELSE 10 * int(SubSeq(s, 1, Len(s) - 1)) + DigitValue(s[Len(s)])

\* The entries of the reason combo box.
Reasons == {"Normal", "Emergency"}

\* Mutant of validate: the dialog accepts whatever was entered.
validate_Always(reason, text) == TRUE

\* validate: TRUE when the dialog is accepted, FALSE when it warns and stays
\* open.
validate(reason, text) == ~(reason = "Emergency" /\ strip(text) = <<>>)

get_checkout_notes(reason, text) == IF reason = "Emergency" THEN Some(text) ELSE None

\* Notes the user may have typed: nothing, a blank, an ideographic space
\* before a carriage return, and the letter f after a blank.
NoteTexts == {<<>>, <<32>>, <<12288, 13>>, <<32, 102>>}

\* Times the user may set in the dialog.
DialogTimes == {0, 1}

\* The handler open_check_out_dialog is suspended in dialog.exec_(): last is
\* then the call in progress, with the booking ids the dialog offers.
DialogOpen == last.op = "open_check_out_dialog" /\ last.ret = "exec_"

\* MainWindow.open_check_out_dialog up to dialog.exec_(): with no current
\* booking it only informs and returns; otherwise it reads the current
\* bookings, fills the dialog with their ids and waits in exec_().
open_check_out_dialog ==
    LET current_bookings == get_current_bookings(bookings)
        booking_ids == [i \in 1..Len(current_bookings) |-> str(current_bookings[i].booking_id)]
    IN  /\ ~DialogOpen
        /\ last' = IF current_bookings = <<>>
                   THEN Call("open_check_out_dialog", NoArgs, "None", 0, "none")
                   ELSE Call("open_check_out_dialog", [booking_ids |-> booking_ids],
                             "exec_", 0, "none")
        /\ UNCHANGED <<manager, files>>

\* OK is pressed in the open dialog, with one of the ids offered, a time, a
\* reason and notes: when validate refuses them it warns and the dialog stays
\* open; otherwise exec_() returns Accepted and the handler calls check_out
\* with what the dialog holds.
dialog_accepted(st) ==
    /\ DialogOpen
    /\ \E i \in 1..Len(last.args.booking_ids), t \in DialogTimes, reason \in Reasons,
          text \in NoteTexts :
          IF validate(reason, text)
          THEN check_out(int(last.args.booking_ids[i]), t, reason,
                         get_checkout_notes(reason, text), st)
          ELSE UNCHANGED vars

\* Cancel is pressed: exec_() returns Rejected and the handler returns
\* without calling the manager.
dialog_rejected ==
    /\ DialogOpen
    /\ last' = Call("open_check_out_dialog", NoArgs, "None", 0, "none")
    /\ UNCHANGED <<manager, files>>

\* The manager driven through the check-out dialog.  The dialog is modal
\* (exec_) and the main window is the only other window, so no other
\* handler starts while the dialog is open.
NextDialog ==
    \/ ~DialogOpen /\ CheckIn(CheckInInputs, StorageOk)
    \/ open_check_out_dialog
    \/ dialog_accepted(StorageOk)
    \/ dialog_rejected
    \/ ~DialogOpen /\ MarkMaintenance(StorageOk)
    \/ ~DialogOpen /\ MarkRepaired(StorageOk)
    \/ ~DialogOpen /\ ClearCheckedOut(StorageOk)
    \/ ~DialogOpen /\ LoadData({DefaultPath})

SpecDialog == Init /\ [][NextDialog]_vars

\* The manager on a storage that may refuse or cut short any write.
Storage == {StorageOk} \cup StorageFaults

NextFaulty ==
    \/ \E st \in Storage : CheckIn({<<1, 0, TRUE>>}, st)
    \/ \E st \in Storage : CheckOut({<<1, "Normal", None>>}, st)
    \/ \E st \in Storage : MarkMaintenance(st)
    \/ \E st \in Storage : MarkRepaired(st)
    \/ \E st \in Storage : ClearCheckedOut(st)
    \/ \E st \in Storage : SaveData({DefaultPath}, st)
    \/ LoadData({DefaultPath})

SpecFaulty == Init /\ [][NextFaulty]_vars

(***************************************************************************)
(* Properties                                                              *)
(***************************************************************************)
\* Room ids of the bookings with no check-out time.
OccupiedRooms == {bookings[i].room_id : i \in {j \in 1..Len(bookings) : bookings[j].check_out = None}}

\* In how many of available, maintenance and occupied the room is.
Memberships(r) ==
    (IF r \in Range(available_rooms) THEN 1 ELSE 0)
    + (IF r \in Range(maintenance_rooms) THEN 1 ELSE 0)
    + (IF r \in OccupiedRooms THEN 1 ELSE 0)

\* C1: in every state reached by check-ins, check-outs, maintenance marks,
\* clears, saves and restores of snapshots the program wrote, every room of
\* the universe is in exactly one of available, maintenance and occupied, and
\* no id outside the universe is in any of the three.
C1_RoomPartition ==
    /\ \A r \in Rooms : Memberships(r) = 1
    /\ Range(available_rooms) \cup Range(maintenance_rooms) \cup OccupiedRooms \subseteq Rooms

\* A restore from the second file has just put back a state with an occupied
\* room and a room under maintenance.
C1_Witness ==
    /\ last.op = "load_data"
    /\ last.ret = "True"
    /\ last.args.path = OtherPath
    /\ OccupiedRooms # {}
    /\ maintenance_rooms # <<>>
    /\ files[DefaultPath].doc # files[OtherPath].doc

\* C2: check_in with a room that is not in available_rooms raises and leaves
\* the bookings, next_id, both room lists and the files unchanged.
C2_CheckInRejected ==
    [][(last'.op = "check_in" /\ last'.args.room_id \notin Range(available_rooms))
         => (last'.ret = "ValueError" /\ UNCHANGED <<manager, files>>)]_vars

\* check_in was refused for a room under maintenance while another room is
\* occupied and the default file holds a snapshot.
C2_Witness ==
    /\ last.op = "check_in"
    /\ last.ret = "ValueError"
    /\ last.args.room_id \in Range(maintenance_rooms)
    /\ OccupiedRooms # {}
    /\ files[DefaultPath].exists

\* C3: a successful check_in appends one booking with id = the old next_id,
\* the arguments as its fields and no check-out data, removes the room from
\* available_rooms, adds 1 to next_id, and leaves maintenance_rooms and the
\* earlier bookings as they were.
C3_CheckInEffect ==
    [][(last'.op = "check_in" /\ last'.ret = "None")
         => /\ last'.args.room_id \in Range(available_rooms)
            /\ bookings' = Append(bookings,
                                  [booking_id |-> next_id,
                                   check_in |-> last'.args.time,
                                   check_out |-> None,
                                   num_guests |-> last'.args.num_guests,
                                   room_id |-> last'.args.room_id,
                                   is_paid |-> last'.args.is_paid,
                                   checkout_reason |-> None,
                                   checkout_notes |-> None])
            /\ Range(available_rooms') = Range(available_rooms) \ {last'.args.room_id}
            /\ Len(available_rooms') = Len(available_rooms) - 1
            /\ next_id' = next_id + 1
            /\ maintenance_rooms' = maintenance_rooms]_vars

\* A second booking was just made, unpaid, after an earlier paid booking.
C3_Witness ==
    /\ last.op = "check_in"
    /\ last.ret = "None"
    /\ Len(bookings) = 2
    /\ bookings[1].is_paid
    /\ ~bookings[2].is_paid
    /\ bookings[2].num_guests = 2

\* check_out's success condition as the specification words it, on the state
\* before the call.
CheckOutAllowed(booking_id, t) ==
    \E i \in 1..Len(bookings) :
        /\ bookings[i].booking_id = booking_id
        /\ bookings[i].check_out = None
        /\ t > bookings[i].check_in

\* C4: check_out returns True exactly when a booking with the id exists, has
\* no check-out time and the time given is after its check-in; then that
\* booking gets the time, reason and notes given, its room is added to
\* available_rooms, and nothing else of the manager changes.
C4_CheckOut ==
    [][last'.op = "check_out"
         => /\ (last'.ret = "True") <=> CheckOutAllowed(last'.args.booking_id, last'.args.time)
            /\ last'.ret = "True" =>
                 \E i \in 1..Len(bookings) :
                    /\ bookings[i].booking_id = last'.args.booking_id
                    /\ bookings' = [bookings EXCEPT ![i] =
                                      [booking_id |-> bookings[i].booking_id,
                                       check_in |-> bookings[i].check_in,
                                       check_out |-> Some(last'.args.time),
                                       num_guests |-> bookings[i].num_guests,
                                       room_id |-> bookings[i].room_id,
                                       is_paid |-> bookings[i].is_paid,
                                       checkout_reason |-> Some(last'.args.reason),
                                       checkout_notes |-> last'.args.notes]]
                    /\ available_rooms' = Append(available_rooms, bookings[i].room_id)
                    /\ maintenance_rooms' = maintenance_rooms
                    /\ next_id' = next_id]_vars

\* The second of two bookings was just checked out as an emergency, with notes.
C4_Witness ==
    /\ last.op = "check_out"
    /\ last.ret = "True"
    /\ Len(bookings) = 2
    /\ bookings[1].check_out = None
    /\ bookings[2].check_out = Some(1)
    /\ bookings[2].checkout_reason = Some("Emergency")
    /\ bookings[2].checkout_notes # None

\* C5: check_out of a current booking at a time equal to or before its
\* check-in returns False; the booking keeps no check-out data, its room
\* stays out of available_rooms, and the manager and the files are unchanged.
C5_CheckOutTooEarly ==
    [][\A i \in 1..Len(bookings) :
         (/\ last'.op = "check_out"
          /\ bookings[i].booking_id = last'.args.booking_id
          /\ bookings[i].check_out = None
          /\ last'.args.time <= bookings[i].check_in)
         => /\ last'.ret = "False"
            /\ bookings'[i].check_out = None
            /\ bookings'[i].checkout_reason = None
            /\ bookings'[i].checkout_notes = None
            /\ bookings[i].room_id \notin Range(available_rooms')
            /\ UNCHANGED <<manager, files>>]_vars

\* check_out was refused for a current booking at a time before its check-in.
C5_Witness ==
    /\ last.op = "check_out"
    /\ last.ret = "False"
    /\ \E i \in 1..Len(bookings) :
          /\ bookings[i].booking_id = last.args.booking_id
          /\ bookings[i].check_out = None
          /\ last.args.time < bookings[i].check_in

\* C6: check_out of a booking that is already checked out, or of an id that
\* no booking has, returns False and changes nothing of the manager or the
\* files.
C6_CheckOutTwice ==
    [][(/\ last'.op = "check_out"
        /\ \A i \in 1..Len(bookings) :
              bookings[i].booking_id = last'.args.booking_id => bookings[i].check_out # None)
         => (last'.ret = "False" /\ UNCHANGED <<manager, files>>)]_vars

\* check_out was refused for a checked-out booking whose room another booking
\* occupies meanwhile, at a time after its check-in.
C6_Witness ==
    /\ last.op = "check_out"
    /\ last.ret = "False"
    /\ \E i, j \in 1..Len(bookings) :
          /\ bookings[i].booking_id = last.args.booking_id
          /\ bookings[i].check_out # None
          /\ last.args.time > bookings[i].check_in
          /\ bookings[j].check_out = None
          /\ bookings[j].room_id = bookings[i].room_id

\* What load_data makes of a snapshot whose records all parse.
Restored(data) ==
    <<Get(data, "next_id", 1),
      Get(data, "available_rooms", RangeList(NumRooms)),
      Get(data, "maintenance_rooms", <<>>),
      [i \in 1..Len(Records(data)) |-> from_dict(Records(data)[i])]>>

\* C7 (as claimed): a restore that reports failure leaves next_id, both room
\* lists and the bookings exactly as they were.
C7_FailedRestoreKeepsState ==
    [][(last'.op = "load_data" /\ last'.ret = "False") => UNCHANGED manager]_vars

\* C8: restoring from a file that holds the snapshot of the current state
\* succeeds and gives back that state, field for field.
C8_RoundTrip ==
    [][(/\ last'.op = "load_data"
        /\ files[last'.args.path] =
             FullFile(Snapshot(next_id, available_rooms, maintenance_rooms, bookings)))
         => (last'.ret = "True" /\ UNCHANGED manager)]_vars

\* A restore has just read back a state with a booking checked out with notes
\* and a booking with no check-out data.
C8_Witness ==
    /\ last.op = "load_data"
    /\ last.ret = "True"
    /\ \E i, j \in 1..Len(bookings) :
          /\ bookings[i].check_out = Some(1)
          /\ bookings[i].checkout_notes # None
          /\ bookings[j].check_out = None
          /\ bookings[j].checkout_reason = None
          /\ bookings[j].check_in = 1

\* The default file holds the snapshot of the state in memory.
DefaultIsCurrent ==
    /\ json_ok(files[DefaultPath])
    /\ records_ok(files[DefaultPath].doc)
    /\ Restored(files[DefaultPath].doc) = manager

\* C9 (as claimed): with a storage that takes every write, after every call
\* that changed the state in memory, a successful restore from any file
\* included, the default file holds the snapshot of that state.
C9_DefaultFileCurrent ==
    [][(manager' # manager) => DefaultIsCurrent']_vars

\* C10 (as claimed): a save_data that fails on a file holding a complete
\* snapshot leaves that snapshot in the file, so that a restore still reads it.
C10_FailedSaveKeepsFile ==
    [][(last'.saved = "error" /\ json_ok(files[DefaultPath]))
         => (files'[DefaultPath] = files[DefaultPath])]_vars


\* Ids of the bookings held.
BookingIds(bks) == {bks[i].booking_id : i \in 1..Len(bks)}

\* C11 (as claimed): next_id never decreases, whatever the operation, a
\* restore included.
C11_CounterNeverDecreases == [][next_id' >= next_id]_vars

\* C11 (amended): next_id starts at 1.  Every operation but load_data leaves
\* it as it is or higher; a successful check_in gives the new booking the id
\* next_id and adds 1; and when every id held is below next_id before such an
\* operation (clear_checked_out_bookings included), so it is after it.  A
\* load_data that can read its file sets next_id to the file's value (1 when
\* it has none), lower or not, whether it then succeeds or fails on a
\* booking record; a load_data that cannot read the file leaves next_id alone.
C11_CounterMonotoneBetweenRestores ==
    /\ next_id = 1
    /\ [][/\ (last'.op # "load_data") => next_id' >= next_id
          /\ (last'.op = "load_data")
               => next_id' = IF json_ok(files[last'.args.path])
                             THEN Get(files[last'.args.path].doc, "next_id", 1)
                             ELSE next_id
          /\ (last'.op = "check_in" /\ last'.ret = "None")
               => /\ bookings'[Len(bookings')].booking_id = next_id
                  /\ next_id' = next_id + 1
          /\ (/\ last'.op # "load_data"
              /\ \A id \in BookingIds(bookings) : id < next_id)
               => \A id \in BookingIds(bookings') : id < next_id']_vars

\* A check_in has just taken id 2 after the booking with id 1 was checked out
\* and cleared.
C11_Witness ==
    /\ last.op = "check_in"
    /\ last.ret = "None"
    /\ BookingIds(bookings) = {2}
    /\ next_id = 3

\* The check-out data of booking i is kept by every booking of bks' with its id.
KeepsCheckOut(b, bks) ==
    \A j \in 1..Len(bks) :
        bks[j].booking_id = b.booking_id
            => /\ bks[j].check_out = b.check_out
               /\ bks[j].checkout_reason = b.checkout_reason
               /\ bks[j].checkout_notes = b.checkout_notes

\* C12 (as claimed): whatever the operation, a restore included, a booking
\* that is checked out and stays in bookings keeps its check-out time, reason
\* and notes.
C12_CheckedOutIsTerminal ==
    [][\A i \in 1..Len(bookings) :
         bookings[i].check_out # None => KeepsCheckOut(bookings[i], bookings')]_vars

\* C12 (amended): the same for every operation but a restore, which puts back
\* the bookings of the snapshot as they were when it was written.
C12_CheckedOutIsTerminalBetweenRestores ==
    [][/\ last'.op # "load_data"
            => \A i \in 1..Len(bookings) :
                 bookings[i].check_out # None => KeepsCheckOut(bookings[i], bookings')
       /\ (last'.op = "load_data" /\ last'.ret = "True")
            => bookings' = Restored(files[last'.args.path].doc)[4]]_vars

\* A second check_out of a booking checked out as an emergency was refused.
C12_Witness ==
    /\ last.op = "check_out"
    /\ last.ret = "False"
    /\ last.args.time = 1
    /\ \E i \in 1..Len(bookings) :
          /\ bookings[i].booking_id = last.args.booking_id
          /\ bookings[i].check_out = Some(1)
          /\ bookings[i].checkout_reason = Some("Emergency")
          /\ bookings[i].check_in = 0


\* Positions in bks of the bookings that are checked out / still current.
CheckedOutAt(bks) == {i \in 1..Len(bks) : bks[i].check_out # None}
CurrentAt(bks) == {i \in 1..Len(bks) : bks[i].check_out = None}

\* C13: clear_checked_out_bookings returns the number of checked-out bookings,
\* leaves exactly the current bookings, each unchanged and in the same relative
\* order, and does not touch next_id, available_rooms or maintenance_rooms.
C13_ClearCheckedOut ==
    [][last'.op = "clear_checked_out_bookings"
         => /\ last'.ret = "int"
            /\ last'.value = Cardinality(CheckedOutAt(bookings))
            /\ Len(bookings') = Len(bookings) - last'.value
            /\ CheckedOutAt(bookings') = {}
            /\ \A i \in CurrentAt(bookings) :
                   bookings'[Cardinality({k \in CurrentAt(bookings) : k <= i})] = bookings[i]
            /\ UNCHANGED <<next_id, available_rooms, maintenance_rooms>>]_vars

\* A clear has just removed one checked-out booking that stood before a
\* current one, which is now the only booking.
C13_Witness ==
    /\ last.op = "clear_checked_out_bookings"
    /\ last.value = 1
    /\ Len(bookings) = 1
    /\ bookings[1].booking_id = 2
    /\ bookings[1].check_out = None


\* C14: a successful check_in to an available room r takes exactly r out of
\* the available set; a check_out of the new booking in the very next step, at
\* a time after its check-in, succeeds and puts exactly r back, so the available
\* set is the one before the check_in again; maintenance_rooms changes in
\* neither step.
C14_CheckInThenCheckOut ==
    [][/\ (last'.op = "check_in" /\ last'.ret = "None")
            => /\ last'.args.room_id \in Range(available_rooms)
               /\ Range(available_rooms') = Range(available_rooms) \ {last'.args.room_id}
               /\ bookings'[Len(bookings')].room_id = last'.args.room_id
               /\ maintenance_rooms' = maintenance_rooms
       /\ (/\ last.op = "check_in" /\ last.ret = "None"
           /\ last'.op = "check_out"
           /\ last'.args.booking_id = bookings[Len(bookings)].booking_id
           /\ last'.args.time > last.args.time)
            => /\ last'.ret = "True"
               /\ last.args.room_id \in Range(available_rooms')
               /\ Range(available_rooms') = Range(available_rooms) \cup {last.args.room_id}
               /\ maintenance_rooms' = maintenance_rooms]_vars

\* The only booking ever made was of room 1 and has been checked out: room 1
\* is back, behind room 2, and nothing is in maintenance.
C14_Witness ==
    /\ last.op = "check_out"
    /\ last.ret = "True"
    /\ next_id = 2
    /\ Len(bookings) = 1
    /\ bookings[1].room_id = 1
    /\ available_rooms = <<2, 1>>
    /\ maintenance_rooms = <<>>


\* C15: mark_room_under_maintenance of an available room moves it from
\* available_rooms to maintenance_rooms; a check_in to a room that is in
\* maintenance_rooms raises ValueError and changes nothing; mark_room_repaired
\* of such a room moves it back to available_rooms; and a check_in to a room
\* just repaired succeeds.
C15_MaintenanceScenario ==
    [][/\ (/\ last'.op = "mark_room_under_maintenance"
           /\ last'.args.room_id \in Range(available_rooms))
            => /\ Range(available_rooms') = Range(available_rooms) \ {last'.args.room_id}
               /\ Range(maintenance_rooms') = Range(maintenance_rooms) \cup {last'.args.room_id}
               /\ UNCHANGED <<next_id, bookings>>
       /\ (/\ last'.op = "check_in"
           /\ last'.args.room_id \in Range(maintenance_rooms))
            => /\ last'.ret = "ValueError"
               /\ UNCHANGED manager
       /\ (/\ last'.op = "mark_room_repaired"
           /\ last'.args.room_id \in Range(maintenance_rooms))
            => /\ Range(maintenance_rooms') = Range(maintenance_rooms) \ {last'.args.room_id}
               /\ Range(available_rooms') = Range(available_rooms) \cup {last'.args.room_id}
               /\ UNCHANGED <<next_id, bookings>>
       /\ (/\ last.op = "mark_room_repaired"
           /\ last.saved # "none"
           /\ last'.op = "check_in"
           /\ last'.args.room_id = last.args.room_id)
            => /\ last'.ret = "None"
               /\ bookings'[Len(bookings')].room_id = last.args.room_id
               /\ last.args.room_id \notin Range(available_rooms')]_vars

\* Room 1 went to maintenance and has just been repaired: it is available
\* again, now behind room 2, and no booking was made meanwhile.
C15_Witness ==
    /\ last.op = "mark_room_repaired"
    /\ last.args.room_id = 1
    /\ last.saved = "ok"
    /\ available_rooms = <<2, 1>>
    /\ maintenance_rooms = <<>>
    /\ bookings = <<>>


\* The guests of the bookings of bks at the positions in S, added up.
RECURSIVE GuestsAt(_, _)
GuestsAt(bks, S) ==
    IF S = {} THEN 0
    ELSE LET i == CHOOSE i \in S : TRUE
         IN  bks[i].num_guests + GuestsAt(bks, S \ {i})

\* C16: get_total_guests is the sum of num_guests over exactly the bookings
\* without a check-out; a successful check_in raises it by the guests checked
\* in, a successful check_out lowers it by the guests of the booking checked
\* out, and maintenance, repair and clear leave it as it is.
C16_TotalGuests ==
    [][/\ get_total_guests(bookings) = GuestsAt(bookings, CurrentAt(bookings))
       /\ get_total_guests(bookings') = GuestsAt(bookings', CurrentAt(bookings'))
       /\ (last'.op = "check_in" /\ last'.ret = "None")
            => get_total_guests(bookings') = get_total_guests(bookings) + last'.args.num_guests
       /\ (last'.op = "check_out" /\ last'.ret = "True")
            => \A i \in 1..Len(bookings) :
                  bookings[i].booking_id = last'.args.booking_id
                    => get_total_guests(bookings')
                         = get_total_guests(bookings) - bookings[i].num_guests
       /\ last'.op \in {"mark_room_under_maintenance", "mark_room_repaired",
                        "clear_checked_out_bookings"}
            => get_total_guests(bookings') = get_total_guests(bookings)]_vars

\* A single guest has just been checked out while a party of two stays:
\* two guests in total, with both bookings still in the list.
C16_Witness ==
    /\ last.op = "check_out"
    /\ last.ret = "True"
    /\ Len(bookings) = 2
    /\ \E i, j \in 1..2 :
          /\ bookings[i].booking_id = last.args.booking_id
          /\ bookings[i].num_guests = 1
          /\ bookings[j].check_out = None
          /\ bookings[j].num_guests = 2
    /\ get_total_guests(bookings) = 2


\* C17 (as claimed): a check_in that does not raise hands the new booking back
\* to its caller.
C17_CheckInReturnsBooking ==
    (last.op = "check_in" /\ last.ret # "ValueError") => last.ret = "Booking"

\* C17 (amended): a check_in that does not raise returns None; the booking it
\* made is the last element of bookings, with the id taken from next_id (now
\* one higher), the arguments as its fields and no check-out data.
C17_CheckInLeavesBookingLast ==
    (last.op = "check_in" /\ last.ret # "ValueError")
        => /\ last.ret = "None"
           /\ bookings # <<>>
           /\ bookings[Len(bookings)] =
                  [booking_id |-> next_id - 1,
                   check_in |-> last.args.time,
                   check_out |-> None,
                   num_guests |-> last.args.num_guests,
                   room_id |-> last.args.room_id,
                   is_paid |-> last.args.is_paid,
                   checkout_reason |-> None,
                   checkout_notes |-> None]

\* A paid check_in of one guest has just made booking 2, after booking 1 was
\* checked out.
C17_Witness ==
    /\ last.op = "check_in"
    /\ last.ret = "None"
    /\ last.args.is_paid
    /\ Len(bookings) = 2
    /\ bookings[1].check_out # None
    /\ bookings[2].booking_id = 2
    /\ bookings[2].is_paid


\* A booking record with the four required fields in their right shape; when
\* it has a check_out, that is null, the empty text or an ISO time.
HasRequiredFields(rec) ==
    /\ {"booking_id", "check_in", "num_guests", "room_id"} \subseteq DOMAIN rec
    /\ iso_valid(rec["check_in"])
    /\ ("check_out" \in DOMAIN rec /\ Truthy(rec["check_out"]))
          => iso_valid(rec["check_out"][1])

\* C18 (as claimed): load_data of a complete snapshot whose booking records
\* all have the four required fields succeeds, whatever optional fields the
\* records leave out, and each field left out gets its default: no check-out
\* time, not paid, no reason, no notes.
C18_OptionalFieldsDefault ==
    [][(/\ last'.op = "load_data"
        /\ json_ok(files[last'.args.path])
        /\ \A i \in 1..Len(Records(files[last'.args.path].doc)) :
              HasRequiredFields(Records(files[last'.args.path].doc)[i]))
         => /\ last'.ret = "True"
            /\ Len(bookings') = Len(Records(files[last'.args.path].doc))
            /\ \A i \in 1..Len(bookings') :
                  LET rec == Records(files[last'.args.path].doc)[i]
                  IN  /\ "check_out" \notin DOMAIN rec => bookings'[i].check_out = None
                      /\ "is_paid" \notin DOMAIN rec => bookings'[i].is_paid = FALSE
                      /\ "checkout_reason" \notin DOMAIN rec
                            => bookings'[i].checkout_reason = None
                      /\ "checkout_notes" \notin DOMAIN rec
                            => bookings'[i].checkout_notes = None]_vars


\* C19: every booking's checkout_reason is absent, "Normal" or "Emergency";
\* a checked-out booking with reason "Emergency" has notes, and they are not
\* empty (not even blank); a booking with any other reason, or none, has no
\* notes.
C19_EmergencyNotes ==
    \A i \in 1..Len(bookings) :
        LET b == bookings[i]
        IN  /\ b.checkout_reason \in {None, Some("Normal"), Some("Emergency")}
            /\ b.check_out = None => b.checkout_reason = None
            /\ (b.check_out # None /\ b.checkout_reason = Some("Emergency"))
                  => /\ b.checkout_notes # None
                     /\ b.checkout_notes[1] # <<>>
                     /\ strip(b.checkout_notes[1]) # <<>>
            /\ b.checkout_reason # Some("Emergency") => b.checkout_notes = None

\* One booking was checked out as an emergency with notes as typed, leading
\* blank included, and another as normal without notes.
C19_Witness ==
    /\ Len(bookings) = 2
    /\ \E i, j \in 1..2 :
          /\ bookings[i].checkout_reason = Some("Emergency")
          /\ bookings[i].checkout_notes = Some(<<32, 102>>)
          /\ bookings[j].checkout_reason = Some("Normal")
          /\ bookings[j].checkout_notes = None


\* C20: when the save at the end of a check_in or check_out fails, the call
\* still ends normally and its effect is in memory: the check_in has appended
\* the booking with the id next_id, taken the room out of available_rooms and
\* raised next_id by one; the check_out has returned True, set the booking's
\* check-out data and put its room back into available_rooms.
C20_EffectStandsWhenSaveFails ==
    [][/\ (last'.op = "check_in" /\ last'.saved = "error")
            => /\ last'.ret = "None"
               /\ bookings' = Append(bookings,
                                     [booking_id |-> next_id,
                                      check_in |-> last'.args.time,
                                      check_out |-> None,
                                      num_guests |-> last'.args.num_guests,
                                      room_id |-> last'.args.room_id,
                                      is_paid |-> last'.args.is_paid,
                                      checkout_reason |-> None,
                                      checkout_notes |-> None])
               /\ last'.args.room_id \in Range(available_rooms)
               /\ Range(available_rooms') = Range(available_rooms) \ {last'.args.room_id}
               /\ next_id' = next_id + 1
       /\ (last'.op = "check_out" /\ last'.saved = "error")
            => /\ last'.ret = "True"
               /\ Len(bookings') = Len(bookings)
               /\ \E i \in 1..Len(bookings) :
                     /\ bookings[i].booking_id = last'.args.booking_id
                     /\ bookings[i].check_out = None
                     /\ bookings'[i].check_out = Some(last'.args.time)
                     /\ bookings'[i].checkout_reason = Some(last'.args.reason)
                     /\ bookings'[i].checkout_notes = last'.args.notes
                     /\ bookings[i].room_id \notin Range(available_rooms)
                     /\ Range(available_rooms') = Range(available_rooms) \cup {bookings[i].room_id}
               /\ next_id' = next_id]_vars

\* A check_out has just returned True although its save failed, after a
\* check_in whose save failed for want of access: the booking is checked out
\* in memory while no complete default file exists.
C20_Witness ==
    /\ last.op = "check_out"
    /\ last.ret = "True"
    /\ last.saved = "error"
    /\ Len(bookings) = 1
    /\ bookings[1].check_out # None
    /\ bookings[1].room_id \in Range(available_rooms)
    /\ next_id = 2
    /\ ~json_ok(files[DefaultPath])


\* C21: mark_room_under_maintenance of a room that is not in available_rooms
\* (occupied, in maintenance or outside the universe) and mark_room_repaired
\* of a room that is not in maintenance_rooms return normally and change
\* neither the manager nor any file; so no occupied room is ever in
\* maintenance_rooms.
C21_MaintenanceNoOp ==
    [][/\ (/\ last'.op = "mark_room_under_maintenance"
           /\ \/ last'.args.room_id \in OccupiedRooms
              \/ last'.args.room_id \in Range(maintenance_rooms)
              \/ last'.args.room_id \notin Rooms)
            => /\ last'.ret = "None"
               /\ UNCHANGED <<manager, files>>
       /\ (/\ last'.op = "mark_room_repaired"
           /\ last'.args.room_id \notin Range(maintenance_rooms))
            => /\ last'.ret = "None"
               /\ UNCHANGED <<manager, files>>
       /\ OccupiedRooms \cap Range(maintenance_rooms) = {}
       /\ OccupiedRooms' \cap Range(maintenance_rooms') = {}]_vars

\* mark_room_under_maintenance was just asked for an occupied room while the
\* other room is in maintenance: it did nothing and saved nothing.
C21_Witness ==
    /\ last.op = "mark_room_under_maintenance"
    /\ last.args.room_id \in OccupiedRooms
    /\ last.saved = "none"
    /\ maintenance_rooms # <<>>
    /\ available_rooms = <<>>


\* No element of the list s occurs in it twice.
NoDuplicates(s) == \A i, j \in 1..Len(s) : i # j => s[i] # s[j]

\* C22: get_unavailable_rooms lists no room twice, shares no room with
\* get_available_rooms, and the two together list exactly the rooms of the
\* universe.
C22_UnavailableRooms ==
    LET unavailable == get_unavailable_rooms(bookings, maintenance_rooms)
        available == get_available_rooms(available_rooms)
    IN  /\ NoDuplicates(unavailable)
        /\ Range(unavailable) \cap Range(available) = {}
        /\ Range(unavailable) \cup Range(available) = Rooms

\* Room 2 is occupied by the second booking and room 1, which the first
\* booking has left, is in maintenance: the unavailable rooms are 2, then 1.
C22_Witness ==
    /\ Len(bookings) = 2
    /\ bookings[1].check_out # None
    /\ bookings[1].room_id = 1
    /\ get_unavailable_rooms(bookings, maintenance_rooms) = <<2, 1>>
    /\ get_available_rooms(available_rooms) = <<>>


\* C23: no two bookings without a check-out time have the same room,
\* available_rooms and maintenance_rooms list no room twice, and the number of
\* current bookings plus the lengths of the two lists is the number of rooms.
C23_RoomCount ==
    /\ \A i, j \in CurrentAt(bookings) :
          i # j => bookings[i].room_id # bookings[j].room_id
    /\ NoDuplicates(available_rooms)
    /\ NoDuplicates(maintenance_rooms)
    /\ Cardinality(CurrentAt(bookings)) + Len(available_rooms) + Len(maintenance_rooms)
          = NumRooms

\* Room 1 is occupied for the second time, its first booking checked out and
\* still listed, and room 2 is in maintenance: 1 + 0 + 1 rooms.
C23_Witness ==
    /\ Len(bookings) = 2
    /\ bookings[1].room_id = 1
    /\ bookings[1].check_out # None
    /\ bookings[2].room_id = 1
    /\ bookings[2].check_out = None
    /\ available_rooms = <<>>
    /\ maintenance_rooms = <<2>>


\* The booking ids of the list bks go strictly upwards.
IdsIncreasing(bks) ==
    \A i, j \in 1..Len(bks) : i < j => bks[i].booking_id < bks[j].booking_id

\* C24 (as claimed): in every state, also after a restore that failed, the
\* booking ids in bookings are strictly increasing in list order and all
\* below next_id; get_current_bookings and get_checked_out_bookings hold
\* exactly the bookings without and with a check-out time, each in that same
\* order.
C24_IdsIncreasing ==
    /\ IdsIncreasing(bookings)
    /\ \A i \in 1..Len(bookings) : bookings[i].booking_id < next_id
    /\ IdsIncreasing(get_current_bookings(bookings))
    /\ Range(get_current_bookings(bookings)) = {bookings[i] : i \in CurrentAt(bookings)}
    /\ Len(get_current_bookings(bookings)) = Cardinality(CurrentAt(bookings))
    /\ IdsIncreasing(get_checked_out_bookings(bookings))
    /\ Range(get_checked_out_bookings(bookings)) = {bookings[i] : i \in CheckedOutAt(bookings)}
    /\ Len(get_checked_out_bookings(bookings)) = Cardinality(CheckedOutAt(bookings))

====
